---- MODULE Spec2Model ----
(***************************************************************************)
(* Model of policy_crew's retrieval -> re-rank -> gate pipeline, of the    *)
(* harness's evaluation and two-phase tuner, and of the config loader.     *)
(*                                                                         *)
(*   Spec        ReRankingTool._run (src/src/reranking_tool.py), one       *)
(*               invocation at a time, one action per stage of the method  *)
(*   SpecTune    RAGHarness.tune (src/src/rag_harness.py), one action per  *)
(*               trial of each phase                                       *)
(*   SpecSample  the down-sampling of tune's two grids, for large budgets  *)
(*   SpecEval    RAGHarness.evaluate, called twice on one query file, one  *)
(*               action per query                                          *)
(*   SpecConfig  rag_config: the import-time load, get_config and          *)
(*               get_config_sha, with the environment and the file changing*)
(*   SpecRetrieve  RetrievalTool._run (src/src/retrieval_tool.py), one     *)
(*               invocation, the embedding service answering or failing    *)
(*   SpecScore   ReRankingTool._run under one gating configuration, the    *)
(*               relevance model giving large logits as well               *)
(*   SpecArtifacts  smoketest and evaluate, the writers of metrics.json    *)
(*                                                                         *)
(* Scores and thresholds are Python floats in the source.  They are kept   *)
(* here as integers counting millionths (0.9 is 900000), so that the       *)
(* epsilon 1e-6 of the ratio gate is exactly 1; quotients are compared by  *)
(* cross-multiplication.                                                   *)
(***************************************************************************)
EXTENDS Integers, Sequences, FiniteSets, TLC

VARIABLES
    config,        \* reranking_tool.config['gating'], loaded at import
    pc,            \* position of _run
    query,         \* argument of _run
    documents,     \* argument of _run
    raw_scores,    \* what self.reranker.predict returned
    scores,        \* local `scores` after the non-finite filter and transform
    ranked,        \* local `ranked`
    diagnostics,   \* local `diagnostics`
    kept,          \* local `kept`
    result,        \* the returned string
    stdout,        \* the lines printed by the invocation
    gates,         \* the gate conditions evaluated so far, in order
    budget,        \* argument of tune
    tpc,           \* position of tune
    heap,          \* the nested dicts self.config refers to
    combinations,  \* tune's current list of grid combinations (grid indices)
    trial,         \* number of trials of the current phase already run
    phase_a_results,
    phase_b_results,
    best_phase_a_config,
    best_phase_a_recall,
    best_config,
    best_f1,
    tuning_report,
    params_json,
    queries_file,  \* the parsed query file evaluate reads, or the read error
    epc,           \* position of evaluate
    eidx,          \* evaluate's loop index
    all_metrics,   \* evaluate's local `all_metrics`
    effective_config_json,  \* results_dir/effective_config.json
    metrics_json,  \* results_dir/metrics.json
    eresults,      \* what each call of evaluate returned, in call order
    environ,       \* os.environ
    files,         \* the configuration files of the file system
    imported,      \* whether the rag_config module is imported
    config_cache,  \* rag_config._config_cache: None or a reference to the dict
    config_sha_cache,  \* rag_config._config_sha_cache
    returned,      \* the outcome of the last import or call of rag_config
    retrieval_config,  \* retrieval_tool.config: retriever and cosine_floor
    qpc,           \* position of RetrievalTool._run
    splits,        \* the texts of the corpus chunks
    fault,         \* the embedding call that failed, or "none"
    initial_candidates,
    selected_docs, \* the candidates handed on to the prefilter or returned
    similarities,
    retrieved      \* what RetrievalTool._run returned

rvars == <<config, pc, query, documents, raw_scores, scores, ranked,
           diagnostics, kept, result, stdout, gates>>

tvars == <<budget, tpc, heap, combinations, trial, phase_a_results,
           phase_b_results, best_phase_a_config, best_phase_a_recall,
           best_config, best_f1, tuning_report, params_json>>

evars == <<queries_file, epc, eidx, all_metrics, effective_config_json,
           metrics_json, eresults>>

cvars == <<environ, files, imported, config_cache, config_sha_cache, returned>>

qvars == <<retrieval_config, qpc, splits, fault, initial_candidates, selected_docs,
           similarities, retrieved>>

vars == <<rvars, tvars, evars, cvars, qvars>>

\* Python's None
None == [none |-> TRUE]

(***************************************************************************)
(* Bounds                                                                  *)
(***************************************************************************)
MaxDocs == 3

Scale == 1000 * 1000

Epsilon == 1

NaN == 2000000001

PosInf == 2000000002

NonFinite == {NaN, PosInf}

(***************************************************************************)
(* Sequence helpers                                                        *)
(***************************************************************************)
Range(s) == {s[i] : i \in DOMAIN s}

Max(a, b) == IF a >= b THEN a ELSE b

Min(a, b) == IF a <= b THEN a ELSE b

\* Python's s[:n] for n >= 0
Take(s, n) == SubSeq(s, 1, Min(n, Len(s)))

\* zip(a, b): pairs up to the shorter length
Zip(a, b) == [i \in 1..Min(Len(a), Len(b)) |-> [doc |-> a[i], score |-> b[i]]]

(***************************************************************************)
(* Texts: a string is a sequence of words.                                 *)
(***************************************************************************)
STOP == {"a", "an", "the", "and", "or", "not", "for", "to", "of", "in", "on",
         "with", "from", "by", "as", "at", "into", "over", "under", "up",
         "down", "is", "are", "was", "were", "be", "been", "being", "do",
         "does", "did", "this", "that", "these", "those", "it", "its"}

Lower(w) == CASE w = "Policy" -> "policy"
              [] w = "The" -> "the"
              [] OTHER -> w

NotStop(w) == w \notin STOP

\* _tokens: case-fold, split into words, drop stop words
Tokens(s) == SelectSeq([i \in DOMAIN s |-> Lower(s[i])], NotStop)

\* _overlap_ratio, as the quotient num/den
OverlapRatio(q, d) ==
    LET qset == Range(Tokens(q))
        dset == Range(Tokens(d))
    IN IF qset = {} \/ dset = {}
       THEN [num |-> 0, den |-> 1]
       ELSE [num |-> Cardinality(qset \cap dset),
             den |-> Max(1, Cardinality(qset))]

\* "\n\n".join(docs)
RECURSIVE Join(_)
Join(docs) ==
    IF docs = <<>> THEN <<>>
    ELSE IF Len(docs) = 1 THEN docs[1]
    ELSE docs[1] \o <<"\n\n">> \o Join(Tail(docs))

DocA == <<"data", "encryption", "policy">>

DocB == <<"The", "Policy">>

DocC == <<"the", "of", "it">>

Docs == {DocA, DocB, DocC}

Queries == {<<"the", "encryption", "policy">>, <<"is", "it">>}

\* the lists of distinct chunks a retrieval can hand to the re-ranker
Injective(s) == \A i, j \in DOMAIN s : i # j => s[i] # s[j]

DocLists == UNION {{s \in [1..n -> Docs] : Injective(s)} : n \in 0..MaxDocs}

(***************************************************************************)
(* The relevance model's outputs: probabilities 0.3 and 0.9, the logit     *)
(* 2.0, and NaN.                                                           *)
(***************************************************************************)
RawScores == {NaN, 300000, 900000, 2000000}

IsFinite(s) == s \notin NonFinite

\* logits as well: 37.0 and 40.0
LogitScores == RawScores \cup {37000000, 40000000}

\* 1.0 / (1.0 + math.exp(-s)), rounded to a millionth; from 37.0 on
\* 1.0 + math.exp(-s) is 1.0 in double precision and the quotient is 1.0
Sigmoid(s) == CASE s = 300000 -> 574443
                [] s = 900000 -> 710950
                [] s = 2000000 -> 880797
                [] s = 37000000 -> 1000000
                [] s = 40000000 -> 1000000

OutsideUnit(s) == s < 0 \/ s > Scale

\* lines 119-123: squash every remaining score if any is outside [0,1]
Transform(fs) ==
    IF \E i \in DOMAIN fs : OutsideUnit(fs[i])
    THEN [i \in DOMAIN fs |-> Sigmoid(fs[i])]
    ELSE fs

\* sorted(pairs, key=score, reverse=True): stable, equal scores keep their order
RECURSIVE InsertDesc(_, _)
InsertDesc(x, s) ==
    IF s = <<>> THEN <<x>>
    ELSE IF Head(s).score >= x.score THEN <<Head(s)>> \o InsertDesc(x, Tail(s))
    ELSE <<x>> \o s

RECURSIVE SortedDesc(_)
SortedDesc(s) ==
    IF s = <<>> THEN <<>>
    ELSE InsertDesc(s[Len(s)], SortedDesc(SubSeq(s, 1, Len(s) - 1)))

(***************************************************************************)
(* Gate thresholds (config['gating'])                                      *)
(***************************************************************************)
TauValues == {500000}

DeltaValues == {50000, 700000}

\* ratio thresholds count hundredths (1.15 is 115)
RatioScale == 100

RatioValues == {115, 135}

MinOverlapValues == {100000, 500000}

KeepWithinValues == {0 - 10000, 20000, 650000}

TopKValues == {0, 1, 2}

GatingConfigs == [tau : TauValues, delta : DeltaValues, ratio : RatioValues,
                  min_overlap : MinOverlapValues, keep_within : KeepWithinValues,
                  top_k_return : TopKValues]

(***************************************************************************)
(* ReRankingTool._run                                                      *)
(***************************************************************************)
NoRatio == [num |-> 0, den |-> 1]

\* lines 79-97
InitialDiagnostics(docs) ==
    [returned_any |-> docs # <<>>,
     n_candidates |-> Len(docs),
     n_after_rerank |-> 0,
     top1_score |-> 0,
     top2_score |-> 0,
     margin |-> 0,
     ratio |-> NoRatio,
     overlap |-> NoRatio,
     gate_trigger |-> ""]

RerankIdle ==
    /\ pc = "idle"
    /\ query = <<>>
    /\ documents = <<>>
    /\ raw_scores = <<>>
    /\ scores = <<>>
    /\ ranked = <<>>
    /\ diagnostics = InitialDiagnostics(<<>>)
    /\ kept = <<>>
    /\ result = <<>>
    /\ stdout = <<>>
    /\ gates = <<>>

\* return "" from position p, after printing line
ReturnEmpty(line) ==
    /\ result' = <<>>
    /\ stdout' = Append(stdout, <<line>>)
    /\ pc' = "done"

\* lines 77-103: a call of _run; an empty candidate list returns at once
Invoke ==
    /\ pc = "idle"
    /\ \E q \in Queries, docs \in DocLists :
         /\ query' = q
         /\ documents' = docs
         /\ diagnostics' = InitialDiagnostics(docs)
         /\ IF docs = <<>>
            THEN ReturnEmpty("[reranker] no docs")
            ELSE /\ pc' = "score"
                 /\ UNCHANGED <<result, stdout>>
    /\ UNCHANGED <<config, raw_scores, scores, ranked, kept, gates, tvars, evars, cvars, qvars>>

\* lines 107-127: the scoring call, float() or math.exp (a logit below about
\* -709) raises inside the try block; the handler returns ""
PredictRaises ==
    /\ pc = "score"
    /\ ReturnEmpty("[reranker] Error during prediction")
    /\ UNCHANGED <<config, query, documents, raw_scores, scores, ranked,
                   diagnostics, kept, gates, tvars, evars, cvars, qvars>>

\* line 114: `if not finite_scores`
AllNonFiniteSkipped(finite_scores) == FALSE

AllNonFinite(finite_scores) == finite_scores = <<>>

\* lines 107-123: score every pair, drop non-finite scores, squash logits;
\* outputs is the set of values the relevance model can give
ScoreOver(outputs) ==
    /\ pc = "score"
    /\ \E raw \in [1..Len(documents) -> outputs] :
         LET finite_scores == SelectSeq(raw, IsFinite)
         IN /\ raw_scores' = raw
            /\ IF AllNonFinite(finite_scores)
               THEN /\ diagnostics' =
                         [diagnostics EXCEPT !.gate_trigger = "non_finite_scores"]
                    /\ ReturnEmpty("[reranker] All scores are non-finite")
                    /\ UNCHANGED scores
               ELSE /\ scores' = Transform(finite_scores)
                    /\ pc' = "rank"
                    /\ UNCHANGED <<diagnostics, result, stdout>>
    /\ UNCHANGED <<config, query, documents, ranked, kept, gates, tvars, evars, cvars, qvars>>

Score == ScoreOver(RawScores)

ScoreLogits == ScoreOver(LogitScores)

\* lines 130-157: sort descending, compute top1, top2 and the diagnostics
Rank ==
    /\ pc = "rank"
    /\ LET r == SortedDesc(Zip(documents, scores))
       IN /\ ranked' = r
          /\ IF r = <<>>
             THEN /\ ReturnEmpty("[reranker] ranked empty")
                  /\ UNCHANGED diagnostics
             ELSE LET top1 == r[1].score
                      top2 == IF Len(r) > 1 THEN r[2].score ELSE 0
                  IN /\ diagnostics' =
                          [diagnostics EXCEPT
                             !.top1_score = top1,
                             !.top2_score = top2,
                             !.margin = top1 - top2,
                             !.ratio = [num |-> top1, den |-> Max(top2, Epsilon)],
                             !.overlap = OverlapRatio(query, r[1].doc),
                             !.n_after_rerank = Len(r)]
                     /\ stdout' = Append(stdout, <<"[reranker] stats">>)
                     /\ pc' = "gate_tau"
                     /\ UNCHANGED result
    /\ UNCHANGED <<config, query, documents, raw_scores, scores, kept, gates, tvars, evars, cvars, qvars>>

\* top1 < TAU
TauCondition(d, c) == d.top1_score < c.tau

MarginRatioEither(d, c) ==
    \/ d.top1_score - d.top2_score < c.delta
    \/ d.top1_score * RatioScale < c.ratio * (d.top2_score + Epsilon)

\* (top1 - top2) < DELTA and (top1 / (top2 + 1e-6)) < RATIO
MarginRatioCondition(d, c) ==
    /\ d.top1_score - d.top2_score < c.delta
    /\ d.top1_score * RatioScale < c.ratio * (d.top2_score + Epsilon)

\* ov1 < MIN_OVERLAP
OverlapCondition(d, c) == d.overlap.num * Scale < c.min_overlap * d.overlap.den

\* a gate: reject with its trigger when cond holds, else go on to next
Gate(here, name, cond, line, next) ==
    /\ pc = here
    /\ gates' = Append(gates, name)
    /\ IF cond
       THEN /\ diagnostics' = [diagnostics EXCEPT !.gate_trigger = name]
            /\ ReturnEmpty(line)
       ELSE /\ pc' = next
            /\ UNCHANGED <<diagnostics, result, stdout>>
    /\ UNCHANGED <<config, query, documents, raw_scores, scores, ranked, kept, tvars, evars, cvars, qvars>>

GateTauThenOverlap ==
    Gate("gate_tau", "tau", TauCondition(diagnostics, config),
         "[gate] reject: top1<TAU", "gate_overlap")

\* lines 167-171
GateTau ==
    Gate("gate_tau", "tau", TauCondition(diagnostics, config),
         "[gate] reject: top1<TAU", "gate_margin_ratio")

\* lines 173-177
GateMarginRatio ==
    Gate("gate_margin_ratio", "margin_ratio", MarginRatioCondition(diagnostics, config),
         "[gate] reject: margin<DELTA and ratio<RATIO", "gate_overlap")

\* lines 179-183
GateOverlap ==
    Gate("gate_overlap", "overlap", OverlapCondition(diagnostics, config),
         "[gate] reject: overlap<MIN_OVERLAP", "keep")

InWindowNoFloor(s, top1, c) == s >= top1 - c.keep_within

\* s >= top1 - KEEP_WITHIN and s >= TAU
InWindow(s, top1, c) == s >= top1 - c.keep_within /\ s >= c.tau

\* line 186: [d for d, s in ranked if ...]
KeptOf(r, top1, c) ==
    LET Within(p) == InWindow(p.score, top1, c)
        sel == SelectSeq(r, Within)
    IN [i \in DOMAIN sel |-> sel[i].doc]

\* lines 185-197: the keep window, the fallback to top1, the cap, the print
KeepWindow ==
    /\ pc = "keep"
    /\ LET k == KeptOf(ranked, diagnostics.top1_score, config)
           kk == IF k = <<>> THEN <<ranked[1].doc>> ELSE k
           d == [diagnostics EXCEPT !.gate_trigger = "accepted"]
       IN /\ kept' = kk
          /\ diagnostics' = d
          /\ stdout' = (IF k = <<>>
                        THEN Append(stdout, <<"[gate] nothing within tie window; keeping top1 only">>)
                        ELSE stdout) \o <<<<"[diagnostics]", d>>>>
          /\ result' = Join(Take(kk, config.top_k_return))
    /\ pc' = "done"
    /\ UNCHANGED <<config, query, documents, raw_scores, scores, ranked, gates, tvars, evars, cvars, qvars>>

\* the caller takes the result; the tool is ready for the next query
Return ==
    /\ pc = "done"
    /\ pc' = "idle"
    /\ query' = <<>>
    /\ documents' = <<>>
    /\ raw_scores' = <<>>
    /\ scores' = <<>>
    /\ ranked' = <<>>
    /\ diagnostics' = InitialDiagnostics(<<>>)
    /\ kept' = <<>>
    /\ result' = <<>>
    /\ stdout' = <<>>
    /\ gates' = <<>>
    /\ UNCHANGED <<config, tvars, evars, cvars, qvars>>

(***************************************************************************)
(* RAGHarness: the nested dicts of self.config (_load_config, lines 59-115)*)
(***************************************************************************)
DefaultHeap ==
    [retriever |-> [k |-> 10, strategy |-> "similarity", mmr_lambda |-> 500000],
     splitter |-> [chunk_size |-> 1000, chunk_overlap |-> 200],
     gating |-> [tau |-> 250000, delta |-> 50000, ratio |-> 115,
                 min_overlap |-> 100000, keep_within |-> 20000],
     embedder |-> [backend |-> "ollama", use_gpu |-> FALSE],
     reranker |-> [device |-> "cpu"],
     preflight |-> [force_cpu_embeddings |-> FALSE, force_cpu_reranker |-> FALSE,
                    skip_ollama |-> FALSE],
     tuning |-> [budget_trials |-> 50, best_config |-> None]]

\* lines 117-121: a user file that asks for the GPU and forces the CPU in preflight
ForcedCpuHeap ==
    [DefaultHeap EXCEPT
        !.embedder.use_gpu = TRUE,
        !.reranker.device = "mps",
        !.preflight.force_cpu_embeddings = TRUE,
        !.preflight.force_cpu_reranker = TRUE]

HarnessConfigs == {DefaultHeap, ForcedCpuHeap}

\* lines 117-135: a user file whose gating section is null; _deep_merge puts
\* the None in place of the default section
NullGatingHeap == [DefaultHeap EXCEPT !.gating = None]

TuneConfigs == HarnessConfigs \cup {NullGatingHeap}

TuneIdle ==
    /\ budget = 0
    /\ tpc = "idle"
    /\ heap \in TuneConfigs
    /\ combinations = <<>>
    /\ trial = 0
    /\ phase_a_results = <<>>
    /\ phase_b_results = <<>>
    /\ best_phase_a_config = None
    /\ best_phase_a_recall = 0
    /\ best_config = None
    /\ best_f1 = 0
    /\ tuning_report = None
    /\ params_json = None

(***************************************************************************)
(* RAGHarness.tune.  A top-level config dict maps each section name to the *)
(* nested dict it refers to; heap holds the nested dicts.  dict.copy()     *)
(* copies the top level only, so a copy refers to the same nested dicts.   *)
(***************************************************************************)
MaxBudget == 7

MaxSampleBudget == 52

SelfConfig ==
    [retriever |-> "retriever", splitter |-> "splitter", gating |-> "gating",
     embedder |-> "embedder", reranker |-> "reranker", preflight |-> "preflight",
     tuning |-> "tuning"]

\* self.config.copy()
DictCopy(top) == top

\* the value a reader of the dict sees now
Deref(top, h) == [sec \in DOMAIN top |-> h[top[sec]]]

\* _get_effective_config, lines 568-587: the nested dicts after the call; the
\* copy it returns refers to them
GetEffectiveConfig(h) ==
    LET h1 == IF h[SelfConfig.preflight].force_cpu_embeddings
                 /\ h[SelfConfig.embedder].backend = "ollama"
              THEN [h EXCEPT ![DictCopy(SelfConfig).embedder].use_gpu = FALSE]
              ELSE h
    IN IF h[SelfConfig.preflight].force_cpu_reranker
       THEN [h1 EXCEPT ![DictCopy(SelfConfig).reranker].device = "cpu"]
       ELSE h1

\* lines 605-609 and 615: itertools.product in grid order, last factor fastest
K_VALUES == <<10, 15, 20, 30>>

CHUNK_SIZE_VALUES == <<800, 1000, 1200, 1600>>

CHUNK_OVERLAP_VALUES == <<100, 200, 300>>

STRATEGY_VALUES == <<"similarity", "mmr">>

MMR_LAMBDA_VALUES == <<300000, 500000, 700000>>

PhaseAGridSize ==
    Len(K_VALUES) * Len(CHUNK_SIZE_VALUES) * Len(CHUNK_OVERLAP_VALUES)
        * Len(STRATEGY_VALUES) * Len(MMR_LAMBDA_VALUES)

PhaseACombination(i) ==
    [k |-> K_VALUES[(i \div 72) + 1],
     chunk_size |-> CHUNK_SIZE_VALUES[((i \div 18) % 4) + 1],
     chunk_overlap |-> CHUNK_OVERLAP_VALUES[((i \div 6) % 3) + 1],
     strategy |-> STRATEGY_VALUES[((i \div 3) % 2) + 1],
     mmr_lambda |-> MMR_LAMBDA_VALUES[(i % 3) + 1]]

\* lines 690-697
TAU_VALUES == <<150000, 200000, 250000, 300000, 350000, 400000, 450000, 500000>>

DELTA_VALUES == <<0, 50000, 100000, 120000>>

RATIO_VALUES == <<100, 115, 125, 135>>

OVERLAP_VALUES == <<0, 100000, 150000, 200000>>

KEEP_WITHIN_VALUES == <<10000, 20000, 30000>>

PhaseBGridSize ==
    Len(TAU_VALUES) * Len(DELTA_VALUES) * Len(RATIO_VALUES)
        * Len(OVERLAP_VALUES) * Len(KEEP_WITHIN_VALUES)

PhaseBCombination(i) ==
    [tau |-> TAU_VALUES[(i \div 192) + 1],
     delta |-> DELTA_VALUES[((i \div 48) % 4) + 1],
     ratio |-> RATIO_VALUES[((i \div 12) % 4) + 1],
     min_overlap |-> OVERLAP_VALUES[((i \div 3) % 4) + 1],
     keep_within |-> KEEP_WITHIN_VALUES[(i % 3) + 1]]

\* lines 708-715: the hand-picked defaults, by their place in the grid
FallbackCombinations == <<448, 640, 496, 472, 454, 449>>

\* range(n)[::step]
Stride(n, step) == [j \in 1..((n + step - 1) \div step) |-> (j - 1) * step]

\* lines 618-621 and 700-703; budget // 2 = 0 raises ZeroDivisionError
SampleRaises(n, b) == n > b \div 2 /\ b \div 2 = 0

DownSample(n, b) ==
    IF n > b \div 2
    THEN Stride(n, Max(1, n \div (b \div 2)))
    ELSE Stride(n, 1)

\* lines 829-831, 836-838: the simulated aggregate, rounded to 3 places
RecallValues == {750000, 900000}

F1Values == {720000, 920000}

ImprovesOrTies(value, best) == value >= best

\* lines 658 and 763: `>` against the best so far
Improves(value, best) == value > best

\* lines 589-628: load the queries, sample the Phase A grid
TuneStart ==
    /\ tpc = "idle"
    /\ \E b \in 0..MaxBudget :
         /\ budget' = b
         /\ IF SampleRaises(PhaseAGridSize, b)
            THEN /\ tpc' = "raised"
                 /\ UNCHANGED combinations
            ELSE /\ tpc' = "phase_a"
                 /\ combinations' = DownSample(PhaseAGridSize, b)
    /\ trial' = 0
    /\ best_phase_a_config' = None
    /\ best_phase_a_recall' = 0
    /\ phase_a_results' = <<>>
    /\ UNCHANGED <<heap, phase_b_results, best_config, best_f1, tuning_report,
                   params_json, rvars, evars, cvars, qvars>>

\* lines 630-674: one Phase A trial
PhaseATrial ==
    /\ tpc = "phase_a"
    /\ trial < Len(combinations)
    /\ LET c == PhaseACombination(combinations[trial + 1])
           temp_config == DictCopy(SelfConfig)
       IN /\ heap' = [heap EXCEPT
                        ![temp_config.retriever].k = c.k,
                        ![temp_config.splitter].chunk_size = c.chunk_size,
                        ![temp_config.splitter].chunk_overlap = c.chunk_overlap,
                        ![temp_config.retriever].strategy = c.strategy,
                        ![temp_config.retriever].mmr_lambda = c.mmr_lambda]
          /\ \E recall \in RecallValues, f1 \in F1Values :
               /\ phase_a_results' =
                     Append(phase_a_results, [config |-> c, recall |-> recall, f1 |-> f1])
               /\ IF Improves(recall, best_phase_a_recall)
                  THEN /\ best_phase_a_recall' = recall
                       /\ best_phase_a_config' = c
                  ELSE UNCHANGED <<best_phase_a_recall, best_phase_a_config>>
    /\ trial' = trial + 1
    /\ UNCHANGED <<budget, tpc, combinations, phase_b_results, best_config, best_f1,
                   tuning_report, params_json, rvars, evars, cvars, qvars>>

\* lines 679-719: the default winner if Phase A found none, the Phase B grid
PhaseBStart ==
    /\ tpc = "phase_a"
    /\ trial = Len(combinations)
    /\ best_phase_a_config' =
          IF best_phase_a_config = None
          THEN [k |-> heap[SelfConfig.retriever].k,
                chunk_size |-> heap[SelfConfig.splitter].chunk_size,
                chunk_overlap |-> heap[SelfConfig.splitter].chunk_overlap,
                strategy |-> heap[SelfConfig.retriever].strategy,
                mmr_lambda |-> heap[SelfConfig.retriever].mmr_lambda]
          ELSE best_phase_a_config
    /\ LET sampled == DownSample(PhaseBGridSize, budget)
       IN combinations' = IF Len(sampled) = 0 THEN FallbackCombinations ELSE sampled
    /\ best_config' = None
    /\ best_f1' = 0
    /\ phase_b_results' = <<>>
    /\ trial' = 0
    /\ tpc' = "phase_b"
    /\ UNCHANGED <<budget, heap, phase_a_results, best_phase_a_recall, tuning_report,
                   params_json, rvars, evars, cvars, qvars>>

\* line 737: temp_config["gating"]["tau"] = tau raises TypeError on a
\* section that is not a dict
TrialRaises(gating) == gating = None

\* lines 724-773: one Phase B trial; a trial that raises records nothing
PhaseBTrial ==
    /\ tpc = "phase_b"
    /\ trial < Len(combinations)
    /\ LET c == PhaseBCombination(combinations[trial + 1])
           temp_config == DictCopy(SelfConfig)
           structural == [heap EXCEPT
                        ![temp_config.retriever].k = best_phase_a_config.k,
                        ![temp_config.splitter].chunk_size = best_phase_a_config.chunk_size,
                        ![temp_config.splitter].chunk_overlap = best_phase_a_config.chunk_overlap,
                        ![temp_config.retriever].strategy = best_phase_a_config.strategy,
                        ![temp_config.retriever].mmr_lambda = best_phase_a_config.mmr_lambda]
       IN IF TrialRaises(heap[temp_config.gating])
          THEN \* line 737 raises TypeError; lines 771-773 log it and go on
               /\ heap' = structural
               /\ UNCHANGED <<phase_b_results, best_f1, best_config>>
          ELSE /\ heap' = [structural EXCEPT
                             ![temp_config.gating].tau = c.tau,
                             ![temp_config.gating].delta = c.delta,
                             ![temp_config.gating].ratio = c.ratio,
                             ![temp_config.gating].min_overlap = c.min_overlap,
                             ![temp_config.gating].keep_within = c.keep_within]
               /\ \E recall \in RecallValues, f1 \in F1Values :
                    /\ phase_b_results' =
                          Append(phase_b_results, [config |-> c, recall |-> recall, f1 |-> f1])
                    /\ IF Improves(f1, best_f1)
                       THEN /\ best_f1' = f1
                            /\ best_config' = temp_config
                       ELSE UNCHANGED <<best_f1, best_config>>
    /\ trial' = trial + 1
    /\ UNCHANGED <<budget, tpc, combinations, phase_a_results, best_phase_a_config,
                   best_phase_a_recall, tuning_report, params_json, rvars, evars, cvars, qvars>>

\* lines 775-815: build the report, write params.json and
\* effective_config.yaml, return the report
TuneReport ==
    /\ tpc = "phase_b"
    /\ trial = Len(combinations)
    /\ heap' = IF best_config = None
               THEN heap
               ELSE [GetEffectiveConfig(heap) EXCEPT
                        ![DictCopy(SelfConfig).tuning].best_config = best_config]
    /\ params_json' = IF best_config = None THEN params_json ELSE Deref(best_config, heap)
    /\ LET best == IF best_config = None THEN None ELSE Deref(best_config, heap')
       IN tuning_report' =
               [status |-> "SUCCESS",
                phase_a |-> [best_config |-> best_phase_a_config,
                             results |-> phase_a_results,
                             best_recall |-> best_phase_a_recall],
                phase_b |-> [best_config |-> best,
                             results |-> phase_b_results,
                             best_f1 |-> best_f1],
                final_recommendation |->
                   [best_config |-> best,
                    f1_score |-> best_f1,
                    recall |-> IF best_config = None THEN 0 ELSE best.gating.min_overlap,
                    phase_a_config |-> best_phase_a_config,
                    phase_b_config |-> IF best_config = None THEN None ELSE best.gating]]
    /\ tpc' = "done"
    /\ UNCHANGED <<budget, combinations, trial, phase_a_results, phase_b_results,
                   best_phase_a_config, best_phase_a_recall, best_config, best_f1, rvars, evars, cvars, qvars>>

(***************************************************************************)
(* rag_config: the loader, its process-wide cache and the fingerprint.     *)
(* A dict is kept in insertion order, as a sequence of <<key, value>>      *)
(* items; a scalar carries its type (JsonStr, JsonInt, JsonFloat in        *)
(* millionths, JsonBool), so that "30", 30 and 30.0 differ as they do in   *)
(* the JSON text.  A message is the sequence of its words.                 *)
(***************************************************************************)
\* a string and an integer, as json.loads and yaml.safe_load yield them
JsonStr(s) == [str |-> s]

JsonInt(n) == [int |-> n]

JsonFloat(m) == [float |-> m]

JsonBool(b) == [bool |-> b]

\* key in d
DictHas(d, key) == \E i \in DOMAIN d : d[i][1] = key

\* d[key]
DictGet(d, key) == d[CHOOSE i \in DOMAIN d : d[i][1] = key][2]

\* d[key] = value: an existing key keeps its place, a new one goes last
DictSet(d, key, value) ==
    IF DictHas(d, key)
    THEN [i \in DOMAIN d |-> IF d[i][1] = key THEN <<key, value>> ELSE d[i]]
    ELSE Append(d, <<key, value>>)

\* lines 11-21
REQUIRED_CONFIG_KEYS ==
    << <<"paths", <<"kb_dir", "index_dir", "results_dir">> >>,
       <<"loader", <<"globs", "exclude", "max_files">> >>,
       <<"splitter", <<"chunk_size", "chunk_overlap">> >>,
       <<"embedder", <<"backend", "model", "base_url", "use_gpu", "batch_size",
                       "cosine_floor">> >>,
       <<"vector_store", <<"type", "persist">> >>,
       <<"retriever", <<"strategy", "k", "mmr_lambda">> >>,
       <<"reranker", <<"model", "device", "max_length", "batch_size">> >>,
       <<"gating", <<"tau", "delta", "ratio", "min_overlap", "keep_within",
                     "top_k_return">> >>,
       <<"preflight", <<"force_cpu_embeddings", "force_cpu_reranker",
                        "skip_ollama">> >> >>

\* raise ValueError(text), raise FileNotFoundError(text)
Raise(type, text) == [raised |-> type, text |-> text]

IsRaised(outcome) == "raised" \in DOMAIN outcome

Ok(value) == [ok |-> value]

\* the validator that accepts everything
ValidateNothing(conf) == Ok(TRUE)

\* lines 34-40 from the i-th required section on: the first missing section
\* or key raises
RECURSIVE ValidateFrom(_, _)
ValidateFrom(conf, i) ==
    IF i > Len(REQUIRED_CONFIG_KEYS)
    THEN Ok(TRUE)
    ELSE LET section == REQUIRED_CONFIG_KEYS[i][1]
             keys == REQUIRED_CONFIG_KEYS[i][2]
         IN IF ~DictHas(conf, section)
            THEN Raise("ValueError",
                       <<"Missing required configuration section:", section>>)
            ELSE LET Absent(key) == ~DictHas(DictGet(conf, section), key)
                     missing == SelectSeq(keys, Absent)
                 IN IF missing # <<>>
                    THEN Raise("ValueError",
                               <<"Missing required configuration key:", section, missing[1]>>)
                    ELSE ValidateFrom(conf, i + 1)

\* _validate_config, lines 32-40
ValidateConfig(conf) == ValidateFrom(conf, 1)

\* lines 45-70: env var, section, key
ENV_TO_CONFIG_MAP ==
    << <<"RAG_EMBEDDINGS_BACKEND", "embedder", "backend">>,
       <<"RAG_EMBEDDINGS_MODEL", "embedder", "model">>,
       <<"RAG_EMBEDDINGS_BASE_URL", "embedder", "base_url">>,
       <<"RAG_EMBEDDINGS_GPU", "embedder", "use_gpu">>,
       <<"RAG_EMBEDDINGS_BATCH_SIZE", "embedder", "batch_size">>,
       <<"RAG_EMBEDDINGS_COSINE_FLOOR", "embedder", "cosine_floor">>,
       <<"RAG_VECTOR_STORE_TYPE", "vector_store", "type">>,
       <<"RAG_VECTOR_STORE_PERSIST", "vector_store", "persist">>,
       <<"RAG_RETRIEVER_STRATEGY", "retriever", "strategy">>,
       <<"RAG_RETRIEVER_K", "retriever", "k">>,
       <<"RAG_RETRIEVER_MMR_LAMBDA", "retriever", "mmr_lambda">>,
       <<"RAG_RERANKER_MODEL", "reranker", "model">>,
       <<"RAG_RERANKER_DEVICE", "reranker", "device">>,
       <<"RAG_RERANKER_MAX_LENGTH", "reranker", "max_length">>,
       <<"RAG_RERANKER_BATCH_SIZE", "reranker", "batch_size">>,
       <<"RAG_TAU", "gating", "tau">>,
       <<"RAG_DELTA", "gating", "delta">>,
       <<"RAG_RATIO", "gating", "ratio">>,
       <<"RAG_MIN_OVERLAP", "gating", "min_overlap">>,
       <<"RAG_KEEP_WITHIN", "gating", "keep_within">>,
       <<"RAG_TOP_K_RETURN", "gating", "top_k_return">>,
       <<"RAG_FORCE_CPU_EMBEDDINGS", "preflight", "force_cpu_embeddings">>,
       <<"RAG_FORCE_CPU_RERANKER", "preflight", "force_cpu_reranker">>,
       <<"RAG_SKIP_OLLAMA", "preflight", "skip_ollama">> >>

\* the names os.environ is looked up under
EnvNames == {ENV_TO_CONFIG_MAP[i][1] : i \in DOMAIN ENV_TO_CONFIG_MAP} \cup {"RAG_CONFIG"}

\* a name that is not in os.environ
Unset == "(unset)"

\* line 78
BooleanKeys == {"use_gpu", "force_cpu_embeddings", "force_cpu_reranker", "skip_ollama"}

\* line 86
NumericKeys == {"chunk_size", "chunk_overlap", "batch_size", "k", "mmr_lambda",
                "max_length", "top_k_return"}

\* line 92
FloatKeys == {"cosine_floor", "tau", "delta", "ratio", "min_overlap", "keep_within"}

\* float(value), on the strings the environment is given here
FloatOf(env_var, value) ==
    CASE value = "0.30" -> Ok(JsonFloat(300000))
      [] value = "30" -> Ok(JsonFloat(30 * Scale))
      [] OTHER -> Raise("ValueError", <<"Invalid numeric value for", env_var, value>>)

\* int(value)
IntOf(env_var, value) ==
    CASE value = "30" -> Ok(JsonInt(30))
      [] OTHER -> Raise("ValueError", <<"Invalid numeric value for", env_var, value>>)

\* '.' in value
HasDot(value) == value \in {"0.30", "other.yaml", "missing.yaml"}

\* lines 80-85
BooleanOf(env_var, value) ==
    IF Lower(value) \in {"true", "1", "yes", "on"} THEN Ok(JsonBool(TRUE))
    ELSE IF Lower(value) \in {"false", "0", "no", "off"} THEN Ok(JsonBool(FALSE))
    ELSE Raise("ValueError", <<"Invalid boolean value for", env_var, value>>)

\* lines 77-97: the value converted by the suffix of its conf path
Coerce(env_var, key, value) ==
    IF key \in BooleanKeys THEN BooleanOf(env_var, value)
    ELSE IF key \in NumericKeys
         THEN (IF HasDot(value) THEN FloatOf(env_var, value) ELSE IntOf(env_var, value))
    ELSE IF key \in FloatKeys THEN FloatOf(env_var, value)
    ELSE Ok(JsonStr(value))

\* lines 100-106
SetPath(conf, section, key, value) ==
    LET current == IF DictHas(conf, section) THEN DictGet(conf, section) ELSE <<>>
    IN DictSet(conf, section, DictSet(current, key, value))

\* lines 73-106 from the i-th entry of the map on
RECURSIVE ApplyFrom(_, _, _)
ApplyFrom(conf, env, i) ==
    IF i > Len(ENV_TO_CONFIG_MAP)
    THEN Ok(conf)
    ELSE LET env_var == ENV_TO_CONFIG_MAP[i][1]
             section == ENV_TO_CONFIG_MAP[i][2]
             key == ENV_TO_CONFIG_MAP[i][3]
         IN IF env[env_var] = Unset
            THEN ApplyFrom(conf, env, i + 1)
            ELSE LET value == Coerce(env_var, key, env[env_var])
                 IN IF IsRaised(value)
                    THEN value
                    ELSE ApplyFrom(SetPath(conf, section, key, value.ok), env, i + 1)

\* _apply_env_overrides, lines 42-108
ApplyEnvOverrides(conf, env) == ApplyFrom(conf, env, 1)

\* every key a conf can hold, in the order sort_keys=True puts them
SortedKeyNames ==
    <<"backend", "base_url", "batch_size", "chunk_overlap", "chunk_size", "cosine_floor",
      "delta", "device", "embedder", "exclude", "force_cpu_embeddings",
      "force_cpu_reranker", "gating", "globs", "index_dir", "k", "kb_dir", "keep_within",
      "loader", "max_files", "max_length", "min_overlap", "mmr_lambda", "model", "paths",
      "persist", "preflight", "ratio", "reranker", "results_dir", "retriever",
      "skip_ollama", "splitter", "strategy", "tau", "top_k_return", "type", "use_gpu",
      "vector_store">>

\* the items of d in the order of their keys
SortKeys(d) ==
    LET Present(key) == DictHas(d, key)
        keys == SelectSeq(SortedKeyNames, Present)
    IN [i \in DOMAIN keys |-> <<keys[i], DictGet(d, keys[i])>>]

\* json.dumps that keeps insertion order
JsonDumpsUnsorted(conf) == conf

\* line 113: json.dumps(config, sort_keys=True, default=str): the sections
\* in key order, each with its items in key order
JsonDumps(conf) ==
    LET sections == SortKeys(conf)
    IN [i \in DOMAIN sections |-> <<sections[i][1], SortKeys(sections[i][2])>>]

\* _compute_config_sha, lines 110-114; the digest stands for the text it
\* was computed from
ComputeConfigSha(conf) == [sha256 |-> JsonDumps(conf)]

\* the values of the shipped configuration the tests expect
\* (test_config_integration.py lines 39-42)
FileValue(key) ==
    CASE key = "tau" -> JsonFloat(500000)
      [] key = "use_gpu" -> JsonBool(FALSE)
      [] key = "k" -> JsonInt(20)
      [] key = "model" -> JsonStr("nomic-embed-text")
      [] OTHER -> JsonStr(key)

\* a configuration file with every required section and key, in the order
\* of REQUIRED_CONFIG_KEYS
FullConfig ==
    [i \in DOMAIN REQUIRED_CONFIG_KEYS |->
        <<REQUIRED_CONFIG_KEYS[i][1],
          [j \in DOMAIN REQUIRED_CONFIG_KEYS[i][2] |->
              <<REQUIRED_CONFIG_KEYS[i][2][j], FileValue(REQUIRED_CONFIG_KEYS[i][2][j])>>]>>]

Reverse(s) == [i \in DOMAIN s |-> s[Len(s) + 1 - i]]

\* the same sections and items written in the opposite order
ReverseItems(conf) ==
    LET r == Reverse(conf)
    IN [i \in DOMAIN r |-> <<r[i][1], Reverse(r[i][2])>>]

ReorderedConfig == ReverseItems(FullConfig)

\* d without key
Without(d, key) ==
    LET Other(item) == item[1] # key
    IN SelectSeq(d, Other)

\* Scenario A: a file without the gating section
MissingGating == Without(FullConfig, "gating")

\* a file without the loader and gating sections and without embedder.model
MissingSeveral ==
    DictSet(Without(Without(FullConfig, "loader"), "gating"),
            "embedder", Without(DictGet(FullConfig, "embedder"), "model"))

\* a path of the file system: absent, or a YAML file with its content
NoFile == [exists |-> FALSE, content |-> <<>>]

File(content) == [exists |-> TRUE, content |-> content]

DefaultConfigPath == "conf/rag_config.yaml"

ConfigFileOptions ==
    {NoFile, File(FullConfig), File(MissingGating), File(MissingSeveral)}

\* the values the environment gives to the variables it sets
EnvValues ==
    [RAG_CONFIG |-> {"other.yaml", "missing.yaml"},
     RAG_TAU |-> {"0.30", "abc"},
     RAG_EMBEDDINGS_GPU |-> {"on", "maybe"},
     RAG_RETRIEVER_K |-> {"30"}]

\* a cache that is never hit
CacheNeverHit(cache) == FALSE

\* line 124
CacheHit(cache) == cache # None

\* get_config, lines 120-152: what it returns or raises, and the two caches
\* after the call
GetConfigCall(cache, sha_cache, env, fs) ==
    IF CacheHit(cache)
    THEN [ret |-> Ok(cache), cache |-> cache, sha_cache |-> sha_cache]
    ELSE LET config_path == IF env["RAG_CONFIG"] # Unset
                            THEN env["RAG_CONFIG"]
                            ELSE DefaultConfigPath
             Raised(e) == [ret |-> e, cache |-> cache, sha_cache |-> sha_cache]
         IN IF ~fs[config_path].exists
            THEN Raised(Raise("FileNotFoundError",
                              <<"Configuration file not found:", config_path>>))
            ELSE LET conf == fs[config_path].content
                     valid == ValidateConfig(conf)
                 IN IF IsRaised(valid)
                    THEN Raised(valid)
                    ELSE LET overridden == ApplyEnvOverrides(conf, env)
                         IN IF IsRaised(overridden)
                            THEN Raised(overridden)
                            ELSE [ret |-> Ok([dict |-> overridden.ok]),
                                  cache |-> [dict |-> overridden.ok],
                                  sha_cache |-> ComputeConfigSha(overridden.ok)]

ConfigIdle ==
    /\ environ = [name \in EnvNames |-> Unset]
    /\ files = [path \in {DefaultConfigPath, "other.yaml", "missing.yaml"} |->
                   CASE path = DefaultConfigPath -> File(FullConfig)
                     [] path = "other.yaml" -> File(ReorderedConfig)
                     [] OTHER -> NoFile]
    /\ imported = FALSE
    /\ config_cache = None
    /\ config_sha_cache = None
    /\ returned = None

\* os.environ[name] = value, del os.environ[name]
SetEnv ==
    /\ \E name \in DOMAIN EnvValues :
         \E value \in EnvValues[name] \cup {Unset} :
            environ' = [environ EXCEPT ![name] = value]
    /\ UNCHANGED <<files, imported, config_cache, config_sha_cache, returned>>
    /\ UNCHANGED <<rvars, tvars, evars, qvars>>

\* the configuration file is written or removed
WriteConfigFile ==
    /\ \E f \in ConfigFileOptions : files' = [files EXCEPT ![DefaultConfigPath] = f]
    /\ UNCHANGED <<environ, imported, config_cache, config_sha_cache, returned>>
    /\ UNCHANGED <<rvars, tvars, evars, qvars>>

\* lines 116-118 and 159-163: the module is imported; its body sets the
\* caches to None and calls get_config, and a raise fails the import, so
\* that the next import runs the body again
Import ==
    /\ ~imported
    /\ LET call == GetConfigCall(None, None, environ, files)
       IN IF IsRaised(call.ret)
          THEN /\ returned' = [call |-> "import",
                               ret |-> Raise("ValueError",
                                         <<"Configuration validation failed at import:">>
                                            \o call.ret.text)]
               /\ UNCHANGED <<imported, config_cache, config_sha_cache>>
          ELSE /\ returned' = [call |-> "import", ret |-> call.ret]
               /\ imported' = TRUE
               /\ config_cache' = call.cache
               /\ config_sha_cache' = call.sha_cache
    /\ UNCHANGED <<environ, files>>
    /\ UNCHANGED <<rvars, tvars, evars, qvars>>

\* a caller calls get_config()
GetConfig ==
    /\ imported
    /\ LET call == GetConfigCall(config_cache, config_sha_cache, environ, files)
       IN /\ returned' = [call |-> "get_config", ret |-> call.ret]
          /\ config_cache' = call.cache
          /\ config_sha_cache' = call.sha_cache
    /\ UNCHANGED <<environ, files, imported>>
    /\ UNCHANGED <<rvars, tvars, evars, qvars>>

\* get_config_sha, lines 154-157
GetConfigSha ==
    /\ imported
    /\ LET call == GetConfigCall(config_cache, config_sha_cache, environ, files)
       IN /\ returned' = [call |-> "get_config_sha",
                          ret |-> IF IsRaised(call.ret) THEN call.ret ELSE Ok(call.sha_cache)]
          /\ config_cache' = call.cache
          /\ config_sha_cache' = call.sha_cache
    /\ UNCHANGED <<environ, files, imported>>
    /\ UNCHANGED <<rvars, tvars, evars, qvars>>

(***************************************************************************)
(* RetrievalTool._run (src/src/retrieval_tool.py).  A chunk is a record of *)
(* its position in the corpus and its page_content; two chunks of the      *)
(* corpus can hold the same text.  Cosine similarities count millionths.   *)
(* The embedding service is external: each of its calls either answers or  *)
(* fails, and `fault` records the call that failed.                        *)
(***************************************************************************)
MaxChunks == 3

Contents == {"access", "backup"}

Chunk(i, s) == [id |-> i, page_content |-> s[i]]

\* what loader.load() and split_documents yield: the texts of the chunks
Corpora == UNION {[1..n -> Contents] : n \in 0..MaxChunks}

KValues == {1, 2}

CosineFloors == {None, JsonFloat(0), JsonFloat(500000)}

\* config['retriever'] and config['embedder']['cosine_floor'], read at import
RetrievalConfigs == [strategy : {"mmr", "similarity"}, k : KValues,
                     cosine_floor : CosineFloors]

SimilarityValues == {-100000, 300000, 500000, 700000}

\* retriever.invoke with search_kwargs k = n: the n nearest chunks of the
\* index (all of them if it holds fewer), nearest first; which chunks are
\* nearest depends on the embeddings
Rankings(s, n) ==
    {r \in [1..Min(n, Len(s)) -> 1..Len(s)] : \A i, j \in DOMAIN r : i # j => r[i] # r[j]}

\* lines 103-109: keep the first document of each page_content
RECURSIVE UniqueDocsFrom(_, _, _)
UniqueDocsFrom(candidates, content_set, unique_docs) ==
    IF candidates = <<>> THEN unique_docs
    ELSE LET doc == Head(candidates)
         IN IF doc.page_content \notin content_set
            THEN UniqueDocsFrom(Tail(candidates), content_set \cup {doc.page_content},
                                Append(unique_docs, doc))
            ELSE UniqueDocsFrom(Tail(candidates), content_set, unique_docs)

UniqueDocsKeepAll(candidates) == candidates

UniqueDocs(candidates) == UniqueDocsFrom(candidates, {}, <<>>)

\* lines 115, 147: `cosine_floor is not None and cosine_floor > 0`
PrefilterConfigured(conf) ==
    /\ conf.cosine_floor # None
    /\ conf.cosine_floor.float > 0

\* lines 127-130, 159-162: the documents whose similarity reaches the floor
RECURSIVE FilteredDocsStrict(_, _, _)
FilteredDocsStrict(docs, sims, floor) ==
    IF docs = <<>> THEN <<>>
    ELSE IF Head(sims) > floor
         THEN <<Head(docs)>> \o FilteredDocsStrict(Tail(docs), Tail(sims), floor)
         ELSE FilteredDocsStrict(Tail(docs), Tail(sims), floor)

RECURSIVE FilteredDocs(_, _, _)
FilteredDocs(docs, sims, floor) ==
    IF docs = <<>> THEN <<>>
    ELSE IF Head(sims) >= floor
         THEN <<Head(docs)>> \o FilteredDocs(Tail(docs), Tail(sims), floor)
         ELSE FilteredDocs(Tail(docs), Tail(sims), floor)

\* [doc.page_content for doc in docs]
PageContents(docs) == [i \in DOMAIN docs |-> docs[i].page_content]

RetrieveLocals ==
    /\ qpc = "idle"
    /\ splits = <<>>
    /\ fault = "none"
    /\ initial_candidates = <<>>
    /\ selected_docs = <<>>
    /\ similarities = <<>>
    /\ retrieved = None

RetrieveIdle ==
    /\ retrieval_config \in RetrievalConfigs
    /\ RetrieveLocals

\* what the other specifications hold the retrieval at
RetrieveUnused ==
    /\ retrieval_config = [strategy |-> "similarity", k |-> 2, cosine_floor |-> None]
    /\ RetrieveLocals

\* lines 56-77: load and split the corpus; no documents returns []
LoadCorpus ==
    /\ qpc = "idle"
    /\ \E s \in Corpora :
         /\ splits' = s
         /\ IF s = <<>>
            THEN /\ retrieved' = <<>>
                 /\ qpc' = "done"
            ELSE /\ qpc' = "index"
                 /\ UNCHANGED retrieved
    /\ UNCHANGED <<retrieval_config, fault, initial_candidates, selected_docs, similarities>>
    /\ UNCHANGED <<rvars, tvars, evars, cvars>>

\* line 80: FAISS.from_documents embeds every chunk and builds the index
BuildIndex ==
    /\ qpc = "index"
    /\ qpc' = "query"
    /\ UNCHANGED <<retrieval_config, splits, fault, initial_candidates, selected_docs,
                   similarities, retrieved>>
    /\ UNCHANGED <<rvars, tvars, evars, cvars>>

\* lines 81-83: the embedding call of from_documents raises; the handler returns []
BuildIndexFails ==
    /\ qpc = "index"
    /\ fault' = "index"
    /\ retrieved' = <<>>
    /\ qpc' = "done"
    /\ UNCHANGED <<retrieval_config, splits, initial_candidates, selected_docs, similarities>>
    /\ UNCHANGED <<rvars, tvars, evars, cvars>>

\* lines 90-112 and 143-144: query the index (2k candidates for mmr, k
\* otherwise); mmr drops repeated contents and keeps k; without a prefilter
\* the selection is returned (lines 140, 172)
QueryIndex ==
    /\ qpc = "query"
    /\ LET mmr == retrieval_config.strategy = "mmr"
           n == IF mmr THEN retrieval_config.k * 2 ELSE retrieval_config.k
       IN \E r \in Rankings(splits, n) :
            LET candidates == [i \in DOMAIN r |-> Chunk(r[i], splits)]
                selected == IF mmr
                            THEN Take(UniqueDocs(candidates), retrieval_config.k)
                            ELSE candidates
            IN /\ initial_candidates' = candidates
               /\ IF mmr /\ candidates = <<>>
                  THEN /\ retrieved' = <<>>
                       /\ qpc' = "done"
                       /\ UNCHANGED selected_docs
                  ELSE /\ selected_docs' = selected
                       /\ IF PrefilterConfigured(retrieval_config)
                          THEN /\ qpc' = "prefilter"
                               /\ UNCHANGED retrieved
                          ELSE /\ retrieved' = PageContents(selected)
                               /\ qpc' = "done"
    /\ UNCHANGED <<retrieval_config, splits, fault, similarities>>
    /\ UNCHANGED <<rvars, tvars, evars, cvars>>

\* lines 93, 144: retriever.invoke embeds the query outside any try block
QueryIndexFails ==
    /\ qpc = "query"
    /\ fault' = "query"
    /\ qpc' = "raised"
    /\ UNCHANGED <<retrieval_config, splits, initial_candidates, selected_docs,
                   similarities, retrieved>>
    /\ UNCHANGED <<rvars, tvars, evars, cvars>>

\* lines 116-137 and 148-169: embed the query and the selected documents
\* (equal texts get equal embeddings), keep the documents at or above the floor
Prefilter ==
    /\ qpc = "prefilter"
    /\ \E cosine \in [Contents -> SimilarityValues] :
         LET sims == [i \in DOMAIN selected_docs |-> cosine[selected_docs[i].page_content]]
         IN /\ similarities' = sims
            /\ retrieved' = PageContents(FilteredDocs(selected_docs, sims,
                                                      retrieval_config.cosine_floor.float))
    /\ qpc' = "done"
    /\ UNCHANGED <<retrieval_config, splits, fault, initial_candidates, selected_docs>>
    /\ UNCHANGED <<rvars, tvars, evars, cvars>>

\* lines 117, 121: embed_query or embed_documents raises outside any try block
PrefilterFails ==
    /\ qpc = "prefilter"
    /\ fault' = "prefilter"
    /\ qpc' = "raised"
    /\ UNCHANGED <<retrieval_config, splits, initial_candidates, selected_docs,
                   similarities, retrieved>>
    /\ UNCHANGED <<rvars, tvars, evars, cvars>>

(***************************************************************************)
(* RAGHarness.evaluate and _compute_aggregate_metrics (lines 408-566).     *)
(* The per-query fields drawn from the random module are kept as three:    *)
(* returned_any, top1_score and drop_reason; the counts, the other scores  *)
(* and the timings are drawn the same way and enter no count of the        *)
(* aggregate.                                                              *)
(***************************************************************************)
MaxQueries == 2

\* the values of the optional "label" field of a line of the query file
LabelValues == {JsonStr("positive"), JsonStr("negative"), JsonInt(1), JsonInt(0)}

\* line 415: one parsed line of the query file; the last one has no "query"
QueryData ==
    {[query |-> "q"]} \cup {[query |-> "q", label |-> l] : l \in LabelValues}
                      \cup {[label |-> JsonStr("positive")]}

\* lines 413-418: the query file, readable (its parsed lines) or not
QueryFiles ==
    {[lines |-> s] : s \in UNION {[1..n -> QueryData] : n \in 0..MaxQueries}}
        \cup {[error |-> "No such file or directory"]}

\* dict.get(key, default)
Get(d, key, default) == IF key \in DOMAIN d THEN d[key] ELSE default

\* lines 452 and 470-471: random.uniform(0.0, 1.0) rounded, and its redraw
Top1Draws == {0, 500000}

Top1Redraws == {100000}

\* lines 446-467
EvalDiagnostics(query_data, returned_any, top1_score, drop_reason) ==
    [query |-> query_data.query,
     label |-> Get(query_data, "label", None),
     returned_any |-> returned_any,
     top1_score |-> top1_score,
     notes |-> Get(query_data, "notes", ""),
     drop_reason |-> drop_reason]

\* lines 482-504
ErrorDiagnostics(query_data) ==
    [query |-> Get(query_data, "query", "unknown"),
     label |-> Get(query_data, "label", None),
     error |-> "'query'",
     returned_any |-> FALSE,
     top1_score |-> 0,
     notes |-> Get(query_data, "notes", ""),
     drop_reason |-> JsonStr("evaluation_error")]

\* the except handler that records nothing
ErrorRowDropped(per_query, query_data) == per_query

\* lines 479-504: the except handler appends the error row
ErrorRow(per_query, query_data) == Append(per_query, ErrorDiagnostics(query_data))

\* sum(1 for m in per_query_metrics if m.get("label") == label and ...)
CountRows(rows, label, returned_any) ==
    Cardinality({i \in DOMAIN rows :
                    /\ Get(rows[i], "label", None) = label
                    /\ Get(rows[i], "returned_any", FALSE) = returned_any})

\* lines 515-566, without the latency means and medians; the quotients are
\* kept as numerator and denominator (f1 = 2pr/(p+r) is 2tp/(2tp+fp+fn) when
\* tp > 0 and 0 when tp = 0)
ComputeAggregateMetrics(rows) ==
    LET tp == CountRows(rows, JsonInt(1), TRUE)
        fp == CountRows(rows, JsonInt(0), TRUE)
        fn == CountRows(rows, JsonInt(1), FALSE)
        tn == CountRows(rows, JsonInt(0), FALSE)
    IN [precision |-> [num |-> tp, den |-> Max(1, tp + fp)],
        recall |-> [num |-> tp, den |-> Max(1, tp + fn)],
        f1 |-> [num |-> 2 * tp, den |-> Max(1, tp + fp) + Max(1, tp + fn)],
        false_positive_rate |-> [num |-> fp, den |-> Max(1, fp + tn)],
        true_positives |-> tp,
        false_positives |-> fp,
        true_negatives |-> tn,
        false_negatives |-> fn]

\* line 429: sha256 of json.dumps(effective_config, sort_keys=True).  A
\* record carries no insertion order, which is what sort_keys=True leaves
\* of a dict; the digest stands for the text it was computed from.
EffectiveConfigSha(effective_config) == [sha256 |-> effective_config]

EvalIdle ==
    /\ queries_file \in QueryFiles
    /\ epc = "idle"
    /\ eidx = 0
    /\ all_metrics = None
    /\ effective_config_json = None
    /\ metrics_json = None
    /\ eresults = <<>>

\* what the other specifications hold the evaluation at
EvalUnused ==
    /\ queries_file = [lines |-> <<>>]
    /\ epc = "idle"
    /\ eidx = 0
    /\ all_metrics = None
    /\ effective_config_json = None
    /\ metrics_json = None
    /\ eresults = <<>>

\* lines 408-434: load the queries, take the effective config, write
\* effective_config.json; evaluate is called at most twice
EvalStart ==
    /\ epc \in {"idle", "done"}
    /\ Len(eresults) < 2
    /\ IF "error" \in DOMAIN queries_file
       THEN /\ eresults' = Append(eresults, [status |-> "FAIL",
                                              details |-> [error |-> queries_file.error]])
            /\ epc' = "done"
            /\ UNCHANGED <<heap, all_metrics, effective_config_json>>
       ELSE /\ heap' = GetEffectiveConfig(heap)
            /\ LET effective_config == Deref(DictCopy(SelfConfig), heap')
               IN /\ all_metrics' =
                        [per_query |-> <<>>,
                         aggregate |-> <<>>,
                         effective_config_sha256 |-> EffectiveConfigSha(effective_config)]
                  /\ effective_config_json' = effective_config
            /\ epc' = "loop"
            /\ UNCHANGED eresults
    /\ eidx' = 0
    /\ UNCHANGED <<queries_file, metrics_json>>
    /\ UNCHANGED <<budget, tpc, combinations, trial, phase_a_results, phase_b_results,
                   best_phase_a_config, best_phase_a_recall, best_config, best_f1,
                   tuning_report, params_json, rvars, cvars, qvars>>

\* lines 440-504: one iteration of the loop over the queries
EvalQuery ==
    /\ epc = "loop"
    /\ eidx < Len(queries_file.lines)
    /\ LET query_data == queries_file.lines[eidx + 1]
       IN IF "query" \notin DOMAIN query_data
          THEN all_metrics' =
                  [all_metrics EXCEPT !.per_query = ErrorRow(@, query_data)]
          ELSE \E returned_any \in BOOLEAN, drawn \in Top1Draws,
                  drop_reason \in {None, JsonStr("low_score")} :
                 \E top1_score \in IF drawn = 0 THEN Top1Redraws ELSE {drawn} :
                    all_metrics' =
                       [all_metrics EXCEPT !.per_query =
                           Append(@, EvalDiagnostics(query_data, returned_any,
                                                     top1_score, drop_reason))]
    /\ eidx' = eidx + 1
    /\ UNCHANGED <<queries_file, epc, effective_config_json, metrics_json, eresults>>
    /\ UNCHANGED <<tvars, rvars, cvars, qvars>>

\* lines 506-513: the aggregate, metrics.json, the return value
EvalFinish ==
    /\ epc = "loop"
    /\ eidx = Len(queries_file.lines)
    /\ all_metrics' =
          [all_metrics EXCEPT !.aggregate = ComputeAggregateMetrics(all_metrics.per_query)]
    /\ metrics_json' = all_metrics'
    /\ eresults' = Append(eresults, all_metrics')
    /\ epc' = "done"
    /\ UNCHANGED <<queries_file, eidx, effective_config_json>>
    /\ UNCHANGED <<tvars, rvars, cvars, qvars>>

\* lines 338-387: the canned diagnostics and aggregate of smoketest
SmoketestMetrics ==
    [per_query |-> <<[query |-> "Test query", label |-> None, returned_any |-> TRUE,
                      n_candidates |-> 10, n_after_rerank |-> 5,
                      top1_score |-> 950000, top2_score |-> 850000, margin |-> 100000,
                      notes |-> "Smoketest", drop_reason |-> None]>>,
     aggregate |-> [precision |-> 900000, recall |-> 850000, f1 |-> 875000,
                    false_positive_rate |-> 120000, true_positives |-> 35,
                    false_positives |-> 5, true_negatives |-> 40, false_negatives |-> 6],
     effective_config_sha256 |-> JsonStr("fake_sha_for_smoketest")]

\* lines 332-397: smoketest writes its canned metrics.json and returns PASS;
\* it runs between two commands of the harness, never inside one
Smoketest ==
    /\ epc \in {"idle", "done"}
    /\ metrics_json' = SmoketestMetrics
    /\ UNCHANGED <<queries_file, epc, eidx, all_metrics, effective_config_json, eresults>>
    /\ UNCHANGED <<tvars, rvars, cvars, qvars>>

InitEval ==
    /\ ConfigIdle
    /\ RetrieveUnused
    /\ heap \in HarnessConfigs
    /\ config \in {[tau |-> 500000, delta |-> 50000, ratio |-> 115, min_overlap |-> 100000,
                    keep_within |-> 20000, top_k_return |-> 2]}
    /\ RerankIdle
    /\ TuneIdle
    /\ EvalIdle

NextEval ==
    \/ EvalStart
    \/ EvalQuery
    \/ EvalFinish

SpecEval == InitEval /\ [][NextEval]_vars

(***************************************************************************)
(* SpecArtifacts: the commands that write metrics.json, smoketest and      *)
(* evaluate, in any order, on a query file of at most one line             *)
(***************************************************************************)
InitArtifacts ==
    /\ InitEval
    /\ "lines" \in DOMAIN queries_file => Len(queries_file.lines) <= 1

NextArtifacts ==
    \/ Smoketest
    \/ EvalStart
    \/ EvalQuery
    \/ EvalFinish

SpecArtifacts == InitArtifacts /\ [][NextArtifacts]_vars

InitConfig ==
    /\ config \in {[tau |-> 500000, delta |-> 50000, ratio |-> 115, min_overlap |-> 100000,
                    keep_within |-> 20000, top_k_return |-> 2]}
    /\ RerankIdle
    /\ TuneIdle
    /\ heap = DefaultHeap
    /\ EvalUnused
    /\ ConfigIdle
    /\ RetrieveUnused

NextConfig ==
    \/ SetEnv
    \/ WriteConfigFile
    \/ Import
    \/ GetConfig
    \/ GetConfigSha

SpecConfig == InitConfig /\ [][NextConfig]_vars

(***************************************************************************)
(* SpecRetrieve: one invocation of RetrievalTool._run                      *)
(***************************************************************************)
InitRetrieve ==
    /\ config \in {[tau |-> 500000, delta |-> 50000, ratio |-> 115, min_overlap |-> 100000,
                    keep_within |-> 20000, top_k_return |-> 2]}
    /\ RerankIdle
    /\ TuneIdle
    /\ heap = DefaultHeap
    /\ EvalUnused
    /\ ConfigIdle
    /\ RetrieveIdle

NextRetrieve ==
    \/ LoadCorpus
    \/ BuildIndex
    \/ BuildIndexFails
    \/ QueryIndex
    \/ QueryIndexFails
    \/ Prefilter
    \/ PrefilterFails

SpecRetrieve == InitRetrieve /\ [][NextRetrieve]_vars

InitTune ==
    /\ ConfigIdle
    /\ RetrieveUnused
    /\ EvalUnused
    /\ config \in {[tau |-> 500000, delta |-> 50000, ratio |-> 115, min_overlap |-> 100000,
                    keep_within |-> 20000, top_k_return |-> 2]}
    /\ RerankIdle
    /\ TuneIdle

NextTune ==
    \/ TuneStart
    \/ PhaseATrial
    \/ PhaseBStart
    \/ PhaseBTrial
    \/ TuneReport

SpecTune == InitTune /\ [][NextTune]_vars

(***************************************************************************)
(* SpecSample: the down-sampling of both grids alone, for budgets up to    *)
(* MaxSampleBudget                                                         *)
(***************************************************************************)
InitSample ==
    /\ ConfigIdle
    /\ RetrieveUnused
    /\ EvalUnused
    /\ config \in {[tau |-> 500000, delta |-> 50000, ratio |-> 115, min_overlap |-> 100000,
                    keep_within |-> 20000, top_k_return |-> 2]}
    /\ RerankIdle
    /\ budget \in 0..MaxSampleBudget
    /\ tpc = "sample_a"
    /\ heap = DefaultHeap
    /\ combinations = <<>>
    /\ trial = 0
    /\ phase_a_results = <<>>
    /\ phase_b_results = <<>>
    /\ best_phase_a_config = None
    /\ best_phase_a_recall = 0
    /\ best_config = None
    /\ best_f1 = 0
    /\ tuning_report = None
    /\ params_json = None

\* lines 615-621
SampleGridA ==
    /\ tpc = "sample_a"
    /\ IF SampleRaises(PhaseAGridSize, budget)
       THEN /\ tpc' = "raised"
            /\ UNCHANGED combinations
       ELSE /\ tpc' = "sample_b"
            /\ combinations' = DownSample(PhaseAGridSize, budget)
    /\ UNCHANGED <<budget, heap, trial, phase_a_results, phase_b_results,
                   best_phase_a_config, best_phase_a_recall, best_config, best_f1,
                   tuning_report, params_json, rvars, evars, cvars, qvars>>

\* lines 697-715
SampleGridB ==
    /\ tpc = "sample_b"
    /\ LET sampled == DownSample(PhaseBGridSize, budget)
       IN combinations' = IF Len(sampled) = 0 THEN FallbackCombinations ELSE sampled
    /\ tpc' = "sampled_b"
    /\ UNCHANGED <<budget, heap, trial, phase_a_results, phase_b_results,
                   best_phase_a_config, best_phase_a_recall, best_config, best_f1,
                   tuning_report, params_json, rvars, evars, cvars, qvars>>

NextSample ==
    \/ SampleGridA
    \/ SampleGridB

SpecSample == InitSample /\ [][NextSample]_vars

(***************************************************************************)
(* Spec: the re-ranker                                                     *)
(***************************************************************************)
Init ==
    /\ ConfigIdle
    /\ RetrieveUnused
    /\ EvalUnused
    /\ config \in GatingConfigs
    /\ RerankIdle
    /\ TuneIdle
    /\ heap = DefaultHeap

Next ==
    \/ Invoke
    \/ PredictRaises
    \/ Score
    \/ Rank
    \/ GateTau
    \/ GateMarginRatio
    \/ GateOverlap
    \/ KeepWindow
    \/ Return

Spec == Init /\ [][Next]_vars

(***************************************************************************)
(* SpecScore: the re-ranker under one gating configuration, the relevance  *)
(* model giving large logits as well                                       *)
(***************************************************************************)
InitScore ==
    /\ ConfigIdle
    /\ RetrieveUnused
    /\ EvalUnused
    /\ config = [tau |-> 500000, delta |-> 50000, ratio |-> 115, min_overlap |-> 100000,
                 keep_within |-> 20000, top_k_return |-> 2]
    /\ RerankIdle
    /\ TuneIdle
    /\ heap = DefaultHeap

NextScore ==
    \/ Invoke
    \/ PredictRaises
    \/ ScoreLogits
    \/ Rank
    \/ GateTau
    \/ GateMarginRatio
    \/ GateOverlap
    \/ KeepWindow
    \/ Return

SpecScore == InitScore /\ [][NextScore]_vars

(***************************************************************************)
(* Claims about ReRankingTool._run (checked under Spec)                    *)
(***************************************************************************)
Returned == pc = "done"

SomeFinite == \E i \in DOMAIN raw_scores : IsFinite(raw_scores[i])

AllRawNonFinite ==
    /\ raw_scores # <<>>
    /\ \A i \in DOMAIN raw_scores : ~IsFinite(raw_scores[i])

Top1 == ranked[1].score

Top2 == IF Len(ranked) > 1 THEN ranked[2].score ELSE 0

Top1Overlap == OverlapRatio(query, ranked[1].doc)

BelowTau == Top1 < config.tau

LowMargin == Top1 - Top2 < config.delta

LowRatio == Top1 * RatioScale < config.ratio * (Top2 + Epsilon)

LowOverlap == Top1Overlap.num * Scale < config.min_overlap * Top1Overlap.den

Rejected(reason) == result = <<>> /\ diagnostics.gate_trigger = reason

Accepted == Returned /\ diagnostics.gate_trigger = "accepted"

PassedTau == Len(gates) >= 2 /\ gates[2] = "margin_ratio"

\* C2: a query that passed tau is rejected by the margin/ratio gate only
\* when margin < delta and ratio < rho both hold; a sufficient margin or a
\* sufficient ratio passes the gate, and the query is then accepted when
\* its overlap reaches min_overlap; a single candidate has top2 = 0.
C2_MarginRatioBoth ==
    PassedTau =>
        /\ diagnostics.gate_trigger = "margin_ratio" <=> (LowMargin /\ LowRatio)
        /\ (~LowMargin \/ ~LowRatio) => pc \in {"gate_overlap", "keep", "done"}
        /\ (Returned /\ (~LowMargin \/ ~LowRatio) /\ ~LowOverlap) => Accepted
        /\ Len(ranked) = 1 => (diagnostics.top2_score = 0 /\ Top2 = 0)

\* Scenario B: top1 = 0.9, top2 = 0.3, tau = 0.5, delta = 0.05, rho = 1.15
C2_Witness ==
    /\ Accepted
    /\ Top1 = 900000
    /\ Top2 = 300000
    /\ config.tau = 500000
    /\ config.delta = 50000
    /\ config.ratio = 115
    /\ result # <<>>

\* the transformed score the relevance model produced for candidate i
TransformedScoreOf(i) ==
    IF \E j \in DOMAIN raw_scores : IsFinite(raw_scores[j]) /\ OutsideUnit(raw_scores[j])
    THEN Sigmoid(raw_scores[i])
    ELSE raw_scores[i]

SomeNotAllNonFinite ==
    /\ SomeFinite
    /\ \E i \in DOMAIN raw_scores : ~IsFinite(raw_scores[i])

Ranking == pc \in {"gate_tau", "gate_margin_ratio", "gate_overlap", "keep", "done"}

\* C3: when some but not all scores are non-finite, exactly the candidates
\* with a non-finite score are dropped, and every ranked candidate carries
\* the transformed score of that same candidate.
C3_DropsNonFinite ==
    (Ranking /\ SomeNotAllNonFinite) =>
        /\ {ranked[n].doc : n \in DOMAIN ranked} =
              {documents[i] : i \in {j \in DOMAIN documents : IsFinite(raw_scores[j])}}
        /\ \A n \in DOMAIN ranked :
              \E i \in DOMAIN documents :
                 /\ documents[i] = ranked[n].doc
                 /\ IsFinite(raw_scores[i])
                 /\ ranked[n].score = TransformedScoreOf(i)

\* C4: when every score is non-finite the invocation ends at once, rejected
\* with gate_trigger non_finite_scores, an empty result and no gate evaluated.
C4_AllNonFinite ==
    (AllRawNonFinite /\ pc # "score") =>
        /\ Returned
        /\ Rejected("non_finite_scores")
        /\ gates = <<>>
        /\ ranked = <<>>

C4_Witness ==
    /\ Returned
    /\ Len(raw_scores) >= 2
    /\ AllRawNonFinite
    /\ Rejected("non_finite_scores")

C5_Qualifies(p) == p.score >= Top1 - config.keep_within /\ p.score >= config.tau

C5_Window == SelectSeq(ranked, C5_Qualifies)

C5_Expected ==
    IF C5_Window = <<>> THEN <<ranked[1].doc>>
    ELSE [i \in DOMAIN C5_Window |-> C5_Window[i].doc]

\* C5: an accepted query returns, in rank order, the candidates within
\* keep_within of top1 and not below tau, cut to the first top_k_return; if
\* none qualifies it returns the top1 candidate alone; with top_k_return >= 1
\* the result is not empty and starts with the top1 candidate.
C5_KeepWindow ==
    Accepted =>
        /\ result = Join(SubSeq(C5_Expected, 1, Min(config.top_k_return, Len(C5_Expected))))
        /\ config.top_k_return >= 1 =>
              /\ result # <<>>
              /\ Len(result) >= Len(ranked[1].doc)
              /\ SubSeq(result, 1, Len(ranked[1].doc)) = ranked[1].doc

\* two candidates qualify and the cap of one cuts the second
C5_Witness ==
    /\ Accepted
    /\ Len(C5_Window) = 2
    /\ config.top_k_return = 1
    /\ result = ranked[1].doc

\* the fallback: no candidate qualifies, top1 alone is returned
C5_FallbackReached ==
    /\ Accepted
    /\ C5_Window = <<>>
    /\ result = ranked[1].doc

EmittedDiagnostics ==
    {stdout[i][2] : i \in {j \in DOMAIN stdout : stdout[j][1] = "[diagnostics]"}}

\* C6: every invocation, whatever its outcome, emits a Diagnostics record
\* whose gate_trigger names the step that ended it.
C6_AlwaysEmits ==
    Returned =>
        \E d \in EmittedDiagnostics :
            d.gate_trigger \in {"tau", "margin_ratio", "overlap",
                                 "non_finite_scores", "accepted"}

IsRejected ==
    /\ Returned
    /\ diagnostics.gate_trigger \in {"tau", "margin_ratio", "overlap", "non_finite_scores"}

\* C7: 0 <= n_after_rerank <= n_candidates, and a rejected query has
\* n_after_rerank = 0.
C7_AfterRerank ==
    /\ 0 <= diagnostics.n_after_rerank
    /\ diagnostics.n_after_rerank <= diagnostics.n_candidates
    /\ IsRejected => diagnostics.n_after_rerank = 0

(***************************************************************************)
(* Claims about RAGHarness.tune (checked under SpecTune and SpecSample)    *)
(***************************************************************************)
TuneDone == tpc = "done"

MaxOf(S) == CHOOSE x \in S : \A y \in S : y <= x

\* the earliest trial of results that attains the highest value of field
EarliestBest(results, Value(_)) ==
    LET top == MaxOf({Value(results[i]) : i \in DOMAIN results})
    IN CHOOSE i \in DOMAIN results :
          /\ Value(results[i]) = top
          /\ \A j \in 1..(i - 1) : Value(results[j]) < top

F1Of(t) == t.f1

RecallOf(t) == t.recall

\* a configuration holding Phase A's winner and the thresholds of trial t
HoldsWinners(cfg, a, t) ==
    /\ cfg # None
    /\ cfg.retriever.k = a.k
    /\ cfg.splitter.chunk_size = a.chunk_size
    /\ cfg.splitter.chunk_overlap = a.chunk_overlap
    /\ cfg.retriever.strategy = a.strategy
    /\ cfg.retriever.mmr_lambda = a.mmr_lambda
    /\ cfg.gating.tau = t.config.tau
    /\ cfg.gating.delta = t.config.delta
    /\ cfg.gating.ratio = t.config.ratio
    /\ cfg.gating.min_overlap = t.config.min_overlap
    /\ cfg.gating.keep_within = t.config.keep_within

\* C8: the best_config reported for Phase B, as the final recommendation
\* and in params.json holds Phase A's winning structural parameters and the
\* gate thresholds of the earliest Phase B trial with the highest F1.
C8_BestConfigOfBestTrial ==
    (TuneDone /\ phase_b_results # <<>>) =>
        LET a == tuning_report.phase_a.best_config
            t == phase_b_results[EarliestBest(phase_b_results, F1Of)]
        IN /\ HoldsWinners(tuning_report.phase_b.best_config, a, t)
           /\ HoldsWinners(tuning_report.final_recommendation.best_config, a, t)
           /\ HoldsWinners(params_json, a, t)

\* the sampled list is range(n)[::step] for some step
IsStrideSlice(c, n) ==
    \E step \in 1..n :
        /\ Len(c) >= 1
        /\ \A j \in DOMAIN c : c[j] = (j - 1) * step
        /\ c[Len(c)] < n
        /\ c[Len(c)] + step >= n

SampledWithin(n) ==
    n > budget \div 2 =>
        /\ IsStrideSlice(combinations, n)
        /\ Len(combinations) <= budget \div 2

\* C9: a grid larger than budget // 2 is down-sampled to a fixed-stride
\* slice in grid order of at most budget // 2 combinations (288 with budget
\* 50 gives at most 25).
C9_SampleWithinHalfBudget ==
    /\ tpc = "sample_b" => SampledWithin(PhaseAGridSize)
    /\ tpc = "sampled_b" => SampledWithin(PhaseBGridSize)

EvalDone == epc = "done" /\ "lines" \in DOMAIN queries_file

LastMetrics == eresults[Len(eresults)]

\* every label of the file is absent or in the labeled-query input format
InputFormatLabels ==
    \A i \in DOMAIN queries_file.lines :
        Get(queries_file.lines[i], "label", None)
            \in {None, JsonStr("positive"), JsonStr("negative")}

\* C11: for rows labeled positive or negative the aggregate counts
\* true_positives = positive and accepted, false_positives = negative and
\* accepted, false_negatives = positive and rejected, true_negatives =
\* negative and rejected, so the four counts add up to the number of labeled
\* rows and unlabeled rows are counted nowhere.
C11_ConfusionCounts ==
    (EvalDone /\ InputFormatLabels) =>
        LET rows == LastMetrics.per_query
            a == LastMetrics.aggregate
        IN /\ a.true_positives = CountRows(rows, JsonStr("positive"), TRUE)
           /\ a.false_positives = CountRows(rows, JsonStr("negative"), TRUE)
           /\ a.false_negatives = CountRows(rows, JsonStr("positive"), FALSE)
           /\ a.true_negatives = CountRows(rows, JsonStr("negative"), FALSE)
           /\ a.true_positives + a.false_positives + a.false_negatives + a.true_negatives
                 = Cardinality({i \in DOMAIN rows : rows[i].label # None})

\* C16: no step of tune changes a value of the nested dicts self.config
\* refers to: the base configuration after the call is the one before it.
C16_BaseConfigNeverMutated == [][heap' = heap]_vars

\* C17: building the configuration of one Phase B trial changes nothing that
\* the configuration of another trial (the best one kept so far) holds.
C17_TrialsShareNoState ==
    [][(tpc = "phase_b" /\ trial' = trial + 1 /\ best_config # None
            /\ best_config' = best_config)
          => Deref(best_config, heap') = Deref(best_config, heap)]_vars

\* C18: two calls of evaluate on the same query file with the same
\* configuration return the same per_query rows and the same aggregate.
C18_EvaluateDeterministic ==
    Len(eresults) = 2 => eresults[1] = eresults[2]

\* the row recorded for a line that has no "query": zero-valued, tagged
ZeroValuedErrorRow(row, query_data) ==
    /\ row.drop_reason = JsonStr("evaluation_error")
    /\ row.returned_any = FALSE
    /\ row.top1_score = 0
    /\ row.label = Get(query_data, "label", None)

ConfigCallStep == UNCHANGED <<environ, files>> /\ returned' # None

C13_OverrideSeenByGetConfig ==
    [][(/\ ConfigCallStep
        /\ returned'.call \in {"import", "get_config"}
        /\ ~IsRaised(returned'.ret)
        /\ environ["RAG_TAU"] = "0.30")
          => DictGet(DictGet(returned'.ret.ok.dict, "gating"), "tau") = JsonFloat(300000)]_vars

\* the file get_config resolves: RAG_CONFIG if set, else the default path
ConfigPath ==
    IF environ["RAG_CONFIG"] # Unset THEN environ["RAG_CONFIG"] ELSE DefaultConfigPath

\* the required sections the resolved file lacks
MissingSections ==
    {REQUIRED_CONFIG_KEYS[i][1] : i \in
        {i \in DOMAIN REQUIRED_CONFIG_KEYS :
            ~DictHas(files[ConfigPath].content, REQUIRED_CONFIG_KEYS[i][1])}}

\* the required keys, as <<section, key>>, that its present sections lack
MissingKeys ==
    UNION {{<<REQUIRED_CONFIG_KEYS[i][1], REQUIRED_CONFIG_KEYS[i][2][j]>> :
               j \in {j \in DOMAIN REQUIRED_CONFIG_KEYS[i][2] :
                        ~DictHas(DictGet(files[ConfigPath].content,
                                         REQUIRED_CONFIG_KEYS[i][1]),
                                 REQUIRED_CONFIG_KEYS[i][2][j])}} :
           i \in {i \in DOMAIN REQUIRED_CONFIG_KEYS :
                    DictHas(files[ConfigPath].content, REQUIRED_CONFIG_KEYS[i][1])}}

IsValidationError(ret) ==
    /\ IsRaised(ret)
    /\ \E i \in DOMAIN ret.text :
          ret.text[i] \in {"Missing required configuration section:",
                           "Missing required configuration key:"}

\* C14: the validation error of a load names every required section and
\* every required key the configuration lacks.
C14_ListsEveryMissing ==
    [][(ConfigCallStep /\ IsValidationError(returned'.ret)) =>
          /\ \A section \in MissingSections : section \in Range(returned'.ret.text)
          /\ \A sk \in MissingKeys :
                \E i \in 1..(Len(returned'.ret.text) - 1) :
                   returned'.ret.text[i] = sk[1] /\ returned'.ret.text[i + 1] = sk[2]]_vars

\* what an override variable's value is coerced to; None if it cannot be
\* parsed
C15_Coerced(name, value) ==
    CASE name = "RAG_TAU" /\ value = "0.30" -> JsonFloat(300000)
      [] name = "RAG_EMBEDDINGS_GPU" /\ value = "on" -> JsonBool(TRUE)
      [] name = "RAG_RETRIEVER_K" /\ value = "30" -> JsonInt(30)
      [] OTHER -> None

OverrideEntries ==
    {i \in DOMAIN ENV_TO_CONFIG_MAP : environ[ENV_TO_CONFIG_MAP[i][1]] # Unset}

\* the file resolves, lacks nothing required, and every override parses
C15_Loadable ==
    /\ files[ConfigPath].exists
    /\ MissingSections = {}
    /\ MissingKeys = {}
    /\ \A i \in OverrideEntries :
          C15_Coerced(ENV_TO_CONFIG_MAP[i][1], environ[ENV_TO_CONFIG_MAP[i][1]]) # None

\* conf has every required section and key
C15_Valid(conf) ==
    \A i \in DOMAIN REQUIRED_CONFIG_KEYS :
        /\ DictHas(conf, REQUIRED_CONFIG_KEYS[i][1])
        /\ \A j \in DOMAIN REQUIRED_CONFIG_KEYS[i][2] :
              DictHas(DictGet(conf, REQUIRED_CONFIG_KEYS[i][1]), REQUIRED_CONFIG_KEYS[i][2][j])

\* conf holds every override of the environment at its mapped path
C15_Overridden(conf) ==
    \A i \in OverrideEntries :
        DictGet(DictGet(conf, ENV_TO_CONFIG_MAP[i][2]), ENV_TO_CONFIG_MAP[i][3])
            = C15_Coerced(ENV_TO_CONFIG_MAP[i][1], environ[ENV_TO_CONFIG_MAP[i][1]])

ContentOf(conf) ==
    UNION {{<<conf[i][1], conf[i][2][j][1], conf[i][2][j][2]>> : j \in DOMAIN conf[i][2]} :
           i \in DOMAIN conf}

\* the same key-value pairs at both levels
SameContent(a, b) ==
    /\ {a[i][1] : i \in DOMAIN a} = {b[i][1] : i \in DOMAIN b}
    /\ ContentOf(a) = ContentOf(b)

\* conf with its sections, the items of each section, or both, written in
\* the opposite order
Reorderings(conf) ==
    {conf,
     Reverse(conf),
     [i \in DOMAIN conf |-> <<conf[i][1], Reverse(conf[i][2])>>],
     ReverseItems(conf)}

\* C20: the fingerprint of the cached configuration is the one computed
\* from it again, and the one of every configuration with the same
\* key-value pairs in another insertion order.
C20_FingerprintOfContent ==
    config_cache # None =>
        /\ ComputeConfigSha(config_cache.dict) = config_sha_cache
        /\ \A other \in Reorderings(config_cache.dict) :
              SameContent(other, config_cache.dict)
                 => ComputeConfigSha(other) = config_sha_cache

\* the file written in the opposite order was loaded and has the
\* fingerprint of the file in the order of REQUIRED_CONFIG_KEYS
C20_Witness ==
    /\ config_cache # None
    /\ config_cache.dict = ReorderedConfig
    /\ ReorderedConfig # FullConfig
    /\ SameContent(ReorderedConfig, FullConfig)
    /\ config_sha_cache = ComputeConfigSha(FullConfig)

(***************************************************************************)
(* Claims about RetrievalTool._run (checked under SpecRetrieve)            *)
(***************************************************************************)
\* the retriever has answered
Retrieved == initial_candidates # <<>>

\* s without the documents whose content an earlier document of s holds
RECURSIVE FirstOccurrences(_)
FirstOccurrences(s) ==
    IF s = <<>> THEN <<>>
    ELSE LET front == SubSeq(s, 1, Len(s) - 1)
             last == s[Len(s)]
         IN IF \E i \in DOMAIN front : front[i].page_content = last.page_content
            THEN FirstOccurrences(front)
            ELSE Append(FirstOccurrences(front), last)

\* C24: with strategy mmr the selection handed to the prefilter is the first
\* 2k candidates without repeated contents (first occurrences, retrieval
\* order), cut to k: at most k entries, no two of equal content, and a
\* function of the candidates and k alone.
C24_MmrSelection ==
    (retrieval_config.strategy = "mmr" /\ Retrieved) =>
        /\ Len(initial_candidates) <= 2 * retrieval_config.k
        /\ selected_docs = Take(FirstOccurrences(Take(initial_candidates,
                                                      2 * retrieval_config.k)),
                                retrieval_config.k)
        /\ Len(selected_docs) <= retrieval_config.k
        /\ \A i, j \in DOMAIN selected_docs :
              i # j => selected_docs[i].page_content # selected_docs[j].page_content

\* three candidates, the second repeating the first: two documents remain
C24_Witness ==
    /\ retrieval_config.strategy = "mmr"
    /\ retrieval_config.k = 2
    /\ Len(initial_candidates) = 3
    /\ initial_candidates[1].page_content = initial_candidates[2].page_content
    /\ Len(selected_docs) = 2
    /\ selected_docs[2] = initial_candidates[3]

\* the positions of the selected documents whose similarity reaches the floor
Qualifying ==
    {i \in DOMAIN selected_docs : similarities[i] >= retrieval_config.cosine_floor.float}

NthQualifying(n) ==
    CHOOSE i \in Qualifying : Cardinality({j \in Qualifying : j <= i}) = n

PrefilterRan == qpc = "done" /\ Len(similarities) = Len(selected_docs) /\ Retrieved

\* C25: with a cosine floor configured (not None and positive, lines 115 and
\* 147) the call returns the contents of exactly the candidates whose
\* similarity is >= the floor, in candidate order, under both strategies; an
\* empty corpus, or no qualifying candidate, returns [] and nothing raises
\* while the embedding service answers.
C25_CosinePrefilter ==
    /\ (PrefilterConfigured(retrieval_config) /\ PrefilterRan) =>
          /\ Len(retrieved) = Cardinality(Qualifying)
          /\ \A n \in DOMAIN retrieved :
                retrieved[n] = selected_docs[NthQualifying(n)].page_content
          /\ (Qualifying = {} => retrieved = <<>>)
    /\ (PrefilterConfigured(retrieval_config) /\ qpc = "done" /\ Retrieved) =>
          Len(similarities) = Len(selected_docs)
    /\ (qpc # "idle" /\ splits = <<>>) => (qpc = "done" /\ retrieved = <<>>)
    /\ fault = "none" => qpc # "raised"

\* two candidates: the first is exactly at the floor and is returned, the
\* second is below it and is dropped
C25_Witness ==
    /\ PrefilterConfigured(retrieval_config)
    /\ PrefilterRan
    /\ Len(selected_docs) = 2
    /\ similarities[1] = retrieval_config.cosine_floor.float
    /\ similarities[2] < retrieval_config.cosine_floor.float
    /\ retrieved = <<selected_docs[1].page_content>>

\* C26: whichever call of the embedding service fails (index build, index
\* query, prefilter embeddings), _run returns an empty list and does not raise.
C26_EmbeddingFailureReturnsEmpty ==
    fault # "none" => (qpc = "done" /\ retrieved = <<>>)

(***************************************************************************)
(* Claims about the tuning report (checked under SpecTune)                 *)
(***************************************************************************)
\* C21: the recall of the report's final_recommendation is the recall
\* recorded for the winning Phase B trial (the earliest of the highest F1).
C21_ReportedRecallOfWinner ==
    (TuneDone /\ phase_b_results # <<>>) =>
        tuning_report.final_recommendation.recall =
            phase_b_results[EarliestBest(phase_b_results, F1Of)].recall

\* results holds, in order, one entry for each of the first n combinations
RecordsTrials(results, n, Combination(_)) ==
    /\ Len(results) = n
    /\ \A i \in 1..n : results[i].config = Combination(combinations[i])

\* C22: each phase's results hold one entry for every combination selected
\* for the phase and tried so far, in evaluation order, with the
\* combination's own parameter assignment; the report carries them all, also
\* when a trial fails.
C22_TrialHistoryComplete ==
    /\ tpc = "phase_a" => RecordsTrials(phase_a_results, trial, PhaseACombination)
    /\ tpc = "phase_b" => RecordsTrials(phase_b_results, trial, PhaseBCombination)
    /\ TuneDone =>
          /\ tuning_report.phase_a.results = phase_a_results
          /\ tuning_report.phase_b.results = phase_b_results
          /\ RecordsTrials(tuning_report.phase_b.results, Len(combinations),
                           PhaseBCombination)

\* C27: for every budget >= 0 the down-sampling does not raise, Phase B has
\* at least one combination to try, and the report returned shows at least
\* one Phase B trial.
C27_TuneCompletesForEveryBudget ==
    /\ tpc # "raised"
    /\ tpc = "phase_b" => Len(combinations) >= 1
    /\ TuneDone => Len(tuning_report.phase_b.results) >= 1

(***************************************************************************)
(* Claims about the scores and the diagnostics of ReRankingTool._run       *)
(* (checked under SpecScore and Spec)                                      *)
(***************************************************************************)
Scored == pc = "rank"

FiniteRaw == SelectSeq(raw_scores, IsFinite)

\* C23: if a finite raw score lies outside [0,1], every remaining score is
\* the logistic transform of its raw score, lies strictly between 0 and 1,
\* and a larger raw score gives a larger score; otherwise the scores are the
\* raw scores.
C23_LogisticTransform ==
    Scored =>
        /\ Len(scores) = Len(FiniteRaw)
        /\ IF \E i \in DOMAIN FiniteRaw : OutsideUnit(FiniteRaw[i])
           THEN /\ \A i \in DOMAIN scores :
                      /\ scores[i] = Sigmoid(FiniteRaw[i])
                      /\ 0 < scores[i]
                      /\ scores[i] < Scale
                /\ \A i, j \in DOMAIN scores :
                      FiniteRaw[i] < FiniteRaw[j] => scores[i] < scores[j]
           ELSE scores = FiniteRaw

GateTriggers == {"tau", "margin_ratio", "overlap", "non_finite_scores", "accepted"}

\* C29: at every return the diagnostics' gate_trigger names the gate that
\* decided (tau, margin_ratio, overlap, non_finite_scores) or is accepted,
\* also for an empty candidate list and when the scoring call raises.
C29_GateTriggerAlwaysSet ==
    Returned => diagnostics.gate_trigger \in GateTriggers

\* C30: returned_any is true exactly when the result is not empty; it is
\* false on every rejection.
C30_ReturnedAnyIffResult ==
    Returned => (diagnostics.returned_any <=> result # <<>>)

(***************************************************************************)
(* Claim about metrics.json (checked under SpecArtifacts)                  *)
(***************************************************************************)
\* C28: whichever command wrote metrics.json last, its
\* effective_config_sha256 is the fingerprint of the effective configuration
\* of the harness, the one evaluate saves as effective_config.json.
C28_MetricsFingerprint ==
    metrics_json # None =>
        metrics_json.effective_config_sha256 =
            EffectiveConfigSha(Deref(DictCopy(SelfConfig), GetEffectiveConfig(heap)))

====
